---- MODULE Spec2Model ----
(***************************************************************************)
(* Model of audioset_downloader.Downloader: download() (catalog slicing    *)
(* and the joblib.Parallel dispatch) and download_file() (path planning,   *)
(* check of an existing file, the fetch/validate/retry loop, replication). *)
(*                                                                         *)
(* External programs are nondeterministic: yt-dlp (os.system, line 153)    *)
(* may leave any content at the canonical path, cp (line 177) may succeed  *)
(* or fail, and ffprobe (get_audio_duration) is a function of the content. *)
(* labels = None (no label filter), index bounds are non-negative and      *)
(* retry_delay >= 0.                                                       *)
(***************************************************************************)
EXTENDS Integers, Sequences, FiniteSets, TLC

\* ---------------------------------------------------------------- bounds
MaxRetriesBound == 2
MaxJobs == 2

\* ------------------------------------------------------- python helpers
None == "None"

Min(a, b) == IF a < b THEN a ELSE b

\* truth value of a Python str-or-None used in a condition
Truthy(x) == x \notin {None, ""}

\* ------------------------------------------------------------- catalog
\* rows of metadata after reset_index (line 102): labels 0 .. NumRows-1
Metadata ==
  << [YTID |-> "a", start_seconds |-> 10, end_seconds |-> 20,
      positive_labels |-> <<"/m/A", "/m/B", "/m/C">>],
     [YTID |-> "b", start_seconds |-> 30, end_seconds |-> 40,
      positive_labels |-> <<"/m/A", "/m/X">>],
     [YTID |-> "c", start_seconds |-> 0, end_seconds |-> 10,
      positive_labels |-> <<"/m/X", "/m/B">>] >>

NumRows == Len(Metadata)
Rows == 0 .. NumRows - 1

\* metadata.loc[i, ...] for a row label i that is present
Row(i) == Metadata[i + 1]

\* class_labels_indices.csv: mid -> display_name ("/m/X" is not a class)
machine_to_display_mapping ==
  [mid \in {"/m/A", "/m/B", "/m/C"} |->
     CASE mid = "/m/A" -> "Speech"
       [] mid = "/m/B" -> "Music"
       [] OTHER        -> "Dog"]

Known(label) == label \in DOMAIN machine_to_display_mapping

\* download(format=...): the value download_files.py passes, and the default
format == "vorbis"

\* {'vorbis':'ogg', ...}.get(self.format, self.format)
Ext(fmt) ==
  CASE fmt = "vorbis" -> "ogg"
    [] fmt = "wav"    -> "wav"
    [] fmt = "mp3"    -> "mp3"
    [] fmt = "flac"   -> "flac"
    [] fmt = "opus"   -> "opus"
    [] fmt = "m4a"    -> "m4a"
    [] OTHER          -> fmt

\* os.path.join(root_path, display_label, f"{ytid}_{start}-{end}.{ext}")
PathOf(display_label, i) ==
  [dir |-> display_label,
   name |-> <<Row(i).YTID, Row(i).start_seconds, Row(i).end_seconds, Ext(format)>>]

Displays == {machine_to_display_mapping[m] : m \in DOMAIN machine_to_display_mapping}

AllPaths == {PathOf(d, i) : d \in Displays, i \in Rows}

\* ------------------------------------------------------- file contents
\* "absent": no file; "corrupt": ffprobe fails; "empty": duration 0.0;
\* "audio": a fresh fetch result; "old": a valid file of an earlier run
Contents == {"absent", "corrupt", "empty", "audio", "old"}

\* what yt-dlp can leave at the output path
FetchResults == {"absent", "corrupt", "empty", "audio"}

\* what may lie under root_path before the run, at a canonical path and at
\* a replication target
PreExisting == {"absent", "corrupt", "old"}
PreExistingCopy == {"absent", "corrupt"}

\* get_audio_duration on a content: <<>> is None, <<d>> a float d (seconds)
Duration(content) ==
  CASE content = "corrupt" -> <<>>
    [] content = "empty"   -> <<0>>
    [] content = "audio"   -> <<10>>
    [] OTHER               -> <<10>>

\* a validator that lets a duration of exactly 0 pass
DurationOk_zero(duration) ==
  /\ duration # <<>>
  /\ duration[1] >= 0

\* `duration and duration > 0.0`
DurationOk(duration) ==
  /\ duration # <<>>
  /\ duration[1] # 0
  /\ duration[1] > 0

\* ------------------------------------------------------------- state
VARIABLES
  self,        \* the Downloader's attributes set by __init__ and download
  fs,          \* files under root_path: path -> content
  dirs,        \* label directories that exist under root_path
  metadata,    \* row labels (DataFrame index) of metadata after slicing
  parallel,    \* joblib.Parallel call: "init", "running", "done", "raised"
  raisedBy,    \* what made download() raise: None, "loc" (line 115) or "task"
  nextI,       \* next i of range(len(metadata)) the generator yields
  pc,          \* per row label: position of its download_file call
  attempt,     \* per row label: local variable attempt
  validated,   \* per row label: the loop was left by break (line 157)
  k,           \* per row label: position in positive_labels of the next cp
  outcome,     \* per row label: how download_file ended
  fetches,     \* per row label: number of os.system(command) calls, line 153
  refreshes,   \* per row label: number of cookie refresh calls, line 165
  waits,       \* per row label: number of time.sleep calls, line 167
  command,     \* per row label: the commands run by os.system, line 153
  printed,     \* per row label: last credential message printed by it
  copied,      \* per row label: targets whose cp (line 177) succeeded
  cpFailed,    \* per row label: targets whose cp (line 177) failed
  labels,      \* self.labels: <<>> is None, <<l>> the list l of display names
  scanned,     \* rows of the segments csv the filter of line 99 has tested
  kept         \* rows of the segments csv the filter of line 99 has kept

vars == <<self, fs, dirs, metadata, parallel, raisedBy, nextI, pc, attempt,
          validated, k, outcome, fetches, refreshes, waits, command, printed,
          copied, cpFailed, labels, scanned, kept>>

\* the state of the label filter (lines 97-99)
filterVars == <<labels, scanned, kept>>

taskVars == <<pc, attempt, validated, k, outcome, fetches, refreshes, waits,
              command, printed, copied, cpFailed>>

\* start_idx, end_idx: <<>> is None, <<n>> the int n.  start_idx = 0 is left
\* out of the inputs: iloc[0:] keeps every row, exactly as start_idx = None
IdxValues == {<<>>} \cup {<<n>> : n \in 0 .. NumRows}
StartIdxValues == IdxValues \ {<<0>>}

\* Downloader.__init__ arguments
Configs ==
  [copy_and_replicate : BOOLEAN,
   cookie_file : {None, "cookies.txt"},
   cookies_from_browser : BOOLEAN,
   max_retries : -1 .. MaxRetriesBound,
   n_jobs : 1 .. MaxJobs,
   start_idx : StartIdxValues,
   end_idx : IdxValues]

labels_of(i) == Row(i).positive_labels

\* file_path of row i (line 138); defined when its first label is known
file_path(i) == PathOf(machine_to_display_mapping[labels_of(i)[1]], i)

\* target_path of row i for the label at position j (line 176)
target_path(i, j) == PathOf(machine_to_display_mapping[labels_of(i)[j]], i)

CanonicalPaths == {file_path(i) : i \in {r \in Rows : Known(labels_of(r)[1])}}

TargetPaths ==
  {target_path(ij[1], ij[2]) :
     ij \in {x \in Rows \X (2 .. 3) :
               /\ x[2] <= Len(labels_of(x[1]))
               /\ Known(labels_of(x[1])[1])
               /\ Known(labels_of(x[1])[x[2]])}}

\* the Downloader is constructed and nothing has run
InitDownloader ==
  /\ self \in Configs
  /\ \E canon \in [CanonicalPaths -> PreExisting],
        copies \in [TargetPaths -> PreExistingCopy] :
       fs = [p \in AllPaths |->
               IF p \in CanonicalPaths THEN canon[p]
               ELSE IF p \in TargetPaths THEN copies[p]
               ELSE "absent"]
  /\ dirs = {p.dir : p \in {q \in AllPaths : fs[q] # "absent"}}
  /\ metadata = <<>>
  /\ parallel = "init"
  /\ raisedBy = None
  /\ nextI = 0
  /\ pc = [i \in Rows |-> "pending"]
  /\ attempt = [i \in Rows |-> 0]
  /\ validated = [i \in Rows |-> FALSE]
  /\ k = [i \in Rows |-> 0]
  /\ outcome = [i \in Rows |-> None]
  /\ fetches = [i \in Rows |-> 0]
  /\ refreshes = [i \in Rows |-> 0]
  /\ waits = [i \in Rows |-> 0]
  /\ command = [i \in Rows |-> {}]
  /\ printed = [i \in Rows |-> None]
  /\ copied = [i \in Rows |-> {}]
  /\ cpFailed = [i \in Rows |-> {}]

\* labels=None as in download_files.py: download() applies no label filter
Init ==
  /\ InitDownloader
  /\ labels = <<>>
  /\ scanned = 0
  /\ kept = {}

\* ---------------------------------------------------------- download()
\* DataFrame.iloc[start:] and .iloc[:stop] on the sequence of row labels
IlocFrom(index, start) == SubSeq(index, start + 1, Len(index))
IlocTo(index, stop) == SubSeq(index, 1, Min(stop, Len(index)))

\* lines 104-108: the chunk indices applied to the row labels 0 .. NumRows-1
ApplyChunk(start_idx, end_idx) ==
  LET all == [n \in 1 .. NumRows |-> n - 1]
      a == IF start_idx # <<>> THEN IlocFrom(all, start_idx[1]) ELSE all
  IN  IF end_idx # <<>> THEN IlocTo(a, end_idx[1]) ELSE a

Labels(index) == {index[n] : n \in 1 .. Len(index)}

\* rows whose download_file call is running, and rows that hold a worker
Active == {i \in Rows : pc[i] \notin {"pending", "done", "raised", "killed"}}
Busy == Active \cup {i \in Rows : pc[i] = "raised" /\ parallel = "running"}

\* lines 84-110: metadata is read, sliced, and the Parallel call begins
Download ==
  /\ parallel = "init"
  /\ metadata' = ApplyChunk(self.start_idx, self.end_idx)
  /\ parallel' = "running"
  /\ UNCHANGED <<filterVars, self, fs, dirs, raisedBy, nextI, taskVars>>

\* lines 112-121: the generator yields the task for i = nextI, which reads
\* metadata.loc[i, ...] (KeyError when label i is not in the index), and a
\* free worker starts download_file on it
Dispatch ==
  /\ parallel = "running"
  /\ nextI < Len(metadata)
  /\ Cardinality(Busy) < self.n_jobs
  /\ IF nextI \in Labels(metadata)
       THEN /\ pc' = [pc EXCEPT ![nextI] = "start"]
            /\ nextI' = nextI + 1
            /\ UNCHANGED <<parallel, raisedBy>>
       ELSE /\ parallel' = "raised"
            /\ raisedBy' = "loc"
            /\ UNCHANGED <<pc, nextI>>
  /\ UNCHANGED <<filterVars, self, fs, dirs, metadata, attempt, validated, k, outcome,
                 fetches, refreshes, waits, command, printed, copied,
                 cpFailed>>

\* an exception of a task reaches the Parallel call: it is re-raised by
\* download() and the workers still running are terminated
Abort ==
  /\ parallel = "running"
  /\ \E i \in Rows : pc[i] = "raised"
  /\ parallel' = "raised"
  /\ raisedBy' = "task"
  /\ pc' = [i \in Rows |-> IF i \in Active THEN "killed" ELSE pc[i]]
  /\ UNCHANGED <<filterVars, self, fs, dirs, metadata, nextI, attempt, validated, k,
                 outcome, fetches, refreshes, waits, command, printed, copied,
                 cpFailed>>

\* line 123: every task has returned; print('Done.'), download returns None
Done ==
  /\ parallel = "running"
  /\ nextI = Len(metadata)
  /\ \A i \in Rows : pc[i] \in {"pending", "done"}
  /\ parallel' = "done"
  /\ UNCHANGED <<filterVars, self, fs, dirs, metadata, raisedBy, nextI, taskVars>>

\* ------------------------------------------------------ download_file()
\* a skip test with the validity condition inverted
AlreadyDownloaded_inverted(path) ==
  /\ fs[path] # "absent"
  /\ ~DurationOk(Duration(fs[path]))

\* lines 141-143: the file exists and its duration is reported and > 0
AlreadyDownloaded(path) ==
  /\ fs[path] # "absent"
  /\ DurationOk(Duration(fs[path]))

\* a loop that allows one attempt too many
LoopCondition_le(att, max_retries) == att <= max_retries

\* line 151: while attempt < self.max_retries
LoopCondition(att, max_retries) == att < max_retries

\* an attempt counter incremented before the validity test
AttemptAfter_always(att, ok) == att + 1

\* lines 156-159: break leaves attempt as it is, a failed validation adds 1
AttemptAfter(att, ok) == IF ok THEN att ELSE att + 1

\* an exhausted task that raises instead of returning
OnExhausted_raise == [pc |-> "raised", outcome |-> "Failed"]

\* lines 169-171: [FAILED] is printed and download_file returns
OnExhausted == [pc |-> "done", outcome |-> "Failed"]

\* a replication that skips the first secondary label
CopyLabels_from3(i) == 3 .. Len(labels_of(i))

\* line 174: positions of positive_labels.split(',')[1:]
CopyLabels(i) == 2 .. Len(labels_of(i))

\* a replication loop that stops at the first cp that fails
NextCopy_stop(i, works) == IF works THEN k[i] + 1 ELSE Len(labels_of(i)) + 1

\* lines 174-177: the for loop goes on to the next label whatever cp returned
NextCopy(i, works) == k[i] + 1

\* a skip that removes the file it found valid
AfterSkip_remove(path) == [fs EXCEPT ![path] = "absent"]

\* lines 143-145: [SKIP] is printed and the call returns, the files untouched
AfterSkip(path) == fs

\* a command builder that prefers the browser when both are configured
_build_ytdlp_command_browser_first(cookie_file, cookies_from_browser) ==
  IF cookies_from_browser
    THEN [options |-> {"--cookies-from-browser"}, print |-> "INFO browser"]
  ELSE IF Truthy(cookie_file)
    THEN [options |-> {"--cookies"}, print |-> "INFO file"]
  ELSE [options |-> {}, print |-> None]

\* lines 72-80 of _build_ytdlp_command: the credential options appended to
\* the command and the message printed
_build_ytdlp_command(cookie_file, cookies_from_browser) ==
  IF Truthy(cookie_file) /\ cookies_from_browser
    THEN [options |-> {"--cookies"}, print |-> "WARNING"]
  ELSE IF cookies_from_browser
    THEN [options |-> {"--cookies-from-browser"}, print |-> "INFO browser"]
  ELSE IF Truthy(cookie_file)
    THEN [options |-> {"--cookies"}, print |-> "INFO file"]
  ELSE [options |-> {}, print |-> None]

\* positions of positive_labels whose lookup lines 128-136 perform, in order
Lookups(i) ==
  IF self.copy_and_replicate
    THEN [j \in 1 .. Len(labels_of(i)) + 1 |->
            IF j <= Len(labels_of(i)) THEN j ELSE 1]
    ELSE <<1, 1>>

\* the first lookup that raises KeyError, 0 when none does
FirstKeyError(i) ==
  LET bad == {n \in 1 .. Len(Lookups(i)) : ~Known(labels_of(i)[Lookups(i)[n]])}
  IN  IF bad = {} THEN 0 ELSE CHOOSE n \in bad : \A m \in bad : n <= m

\* directories made by os.makedirs (lines 131, 134) before a KeyError, if any
MadeDirs(i) ==
  LET stop == IF FirstKeyError(i) = 0 THEN Len(Lookups(i)) ELSE FirstKeyError(i) - 1
  IN  {machine_to_display_mapping[labels_of(i)[Lookups(i)[n]]] :
         n \in {m \in 1 .. Len(Lookups(i)) : m <= stop /\ m <= Len(Lookups(i)) - 1}}

\* lines 126-138: the label directories are made and file_path is planned
PlanPaths(i) ==
  /\ pc[i] = "start"
  /\ dirs' = dirs \cup MadeDirs(i)
  /\ IF FirstKeyError(i) = 0
       THEN /\ pc' = [pc EXCEPT ![i] = "check"]
            /\ UNCHANGED outcome
       ELSE /\ pc' = [pc EXCEPT ![i] = "raised"]
            /\ outcome' = [outcome EXCEPT ![i] = "KeyError"]
  /\ UNCHANGED <<filterVars, self, fs, metadata, parallel, raisedBy, nextI, attempt,
                 validated, k, fetches, refreshes, waits, command, printed,
                 copied,
                 cpFailed>>

\* lines 140-148: a valid existing file ends the call, an invalid one is removed
CheckExisting(i) ==
  /\ pc[i] = "check"
  /\ IF fs[file_path(i)] # "absent"
       THEN IF AlreadyDownloaded(file_path(i))
              THEN /\ pc' = [pc EXCEPT ![i] = "done"]
                   /\ outcome' = [outcome EXCEPT ![i] = "Skipped"]
                   /\ fs' = AfterSkip(file_path(i))
              ELSE /\ fs' = [fs EXCEPT ![file_path(i)] = "absent"]
                   /\ pc' = [pc EXCEPT ![i] = "loop"]
                   /\ UNCHANGED outcome
       ELSE /\ pc' = [pc EXCEPT ![i] = "loop"]
            /\ UNCHANGED <<fs, outcome>>
  /\ UNCHANGED <<filterVars, self, dirs, metadata, parallel, raisedBy, nextI, attempt,
                 validated, k, fetches, refreshes, waits, command, printed,
                 copied,
                 cpFailed>>

\* lines 151-160: one pass of the loop body up to the [RETRY] message:
\* yt-dlp runs and leaves `result` at file_path, then the file is validated
Fetch(i, result) ==
  /\ pc[i] = "loop"
  /\ ~validated[i]
  /\ LoopCondition(attempt[i], self.max_retries)
  /\ LET built == _build_ytdlp_command(self.cookie_file, self.cookies_from_browser)
     IN  /\ command' = [command EXCEPT ![i] =
                          @ \cup {[output |-> file_path(i), options |-> built.options]}]
         /\ printed' = [printed EXCEPT ![i] = built.print]
  /\ fetches' = [fetches EXCEPT ![i] = @ + 1]
  /\ fs' = [fs EXCEPT ![file_path(i)] = result]
  /\ LET duration == IF result # "absent" THEN Duration(result) ELSE <<>>
     IN  IF DurationOk(duration)
           THEN /\ validated' = [validated EXCEPT ![i] = TRUE]
                /\ attempt' = [attempt EXCEPT ![i] = AttemptAfter(@, TRUE)]
                /\ UNCHANGED pc
           ELSE /\ attempt' = [attempt EXCEPT ![i] = AttemptAfter(@, FALSE)]
                /\ pc' = [pc EXCEPT ![i] =
                            IF self.cookies_from_browser THEN "refresh" ELSE "sleep"]
                /\ UNCHANGED validated
  /\ UNCHANGED <<filterVars, self, dirs, metadata, parallel, raisedBy, nextI, k, outcome,
                 refreshes, waits, copied,
                 cpFailed>>

\* lines 163-165: cookies are refreshed from the browser (result ignored)
RefreshCookies(i) ==
  /\ pc[i] = "refresh"
  /\ refreshes' = [refreshes EXCEPT ![i] = @ + 1]
  /\ pc' = [pc EXCEPT ![i] = "sleep"]
  /\ UNCHANGED <<filterVars, self, fs, dirs, metadata, parallel, raisedBy, nextI, attempt,
                 validated, k, outcome, fetches, waits, command, printed, copied,
                 cpFailed>>

\* line 167: time.sleep(self.retry_delay), then back to the loop test
Sleep(i) ==
  /\ pc[i] = "sleep"
  /\ waits' = [waits EXCEPT ![i] = @ + 1]
  /\ pc' = [pc EXCEPT ![i] = "loop"]
  /\ UNCHANGED <<filterVars, self, fs, dirs, metadata, parallel, raisedBy, nextI, attempt,
                 validated, k, outcome, fetches, refreshes, command, printed,
                 copied,
                 cpFailed>>

\* lines 169-173: the loop is over (break, or attempt < max_retries false)
AfterLoop(i) ==
  /\ pc[i] = "loop"
  /\ validated[i] \/ ~LoopCondition(attempt[i], self.max_retries)
  /\ IF attempt[i] = self.max_retries
       THEN /\ pc' = [pc EXCEPT ![i] = OnExhausted.pc]
            /\ outcome' = [outcome EXCEPT ![i] = OnExhausted.outcome]
            /\ UNCHANGED k
       ELSE IF self.copy_and_replicate /\ CopyLabels(i) # {}
         THEN /\ pc' = [pc EXCEPT ![i] = "copy"]
              /\ k' = [k EXCEPT ![i] = CHOOSE j \in CopyLabels(i) :
                                         \A m \in CopyLabels(i) : j <= m]
              /\ UNCHANGED outcome
         ELSE /\ pc' = [pc EXCEPT ![i] = "done"]
              /\ outcome' = [outcome EXCEPT ![i] = "Succeeded"]
              /\ UNCHANGED k
  /\ UNCHANGED <<filterVars, self, fs, dirs, metadata, parallel, raisedBy, nextI, attempt,
                 validated, fetches, refreshes, waits, command, printed, copied,
                 cpFailed>>

\* lines 174-178: cp of file_path to the target of label k; cp fails when
\* the source is missing and may fail otherwise (ok = FALSE)
Copy(i, ok) ==
  /\ pc[i] = "copy"
  /\ LET target == target_path(i, k[i])
         works == ok /\ fs[file_path(i)] # "absent" /\ target.dir \in dirs
     IN  /\ fs' = IF works THEN [fs EXCEPT ![target] = fs[file_path(i)]] ELSE fs
         /\ copied' = IF works THEN [copied EXCEPT ![i] = @ \cup {target}] ELSE copied
         /\ cpFailed' = IF works THEN cpFailed ELSE [cpFailed EXCEPT ![i] = @ \cup {target}]
         /\ IF NextCopy(i, works) \in CopyLabels(i)
              THEN /\ k' = [k EXCEPT ![i] = NextCopy(i, works)]
                   /\ UNCHANGED <<pc, outcome>>
              ELSE /\ pc' = [pc EXCEPT ![i] = "done"]
                   /\ outcome' = [outcome EXCEPT ![i] = "Succeeded"]
                   /\ UNCHANGED k
  /\ UNCHANGED <<filterVars, self, dirs, metadata, parallel, raisedBy, nextI, attempt,
                 validated, fetches, refreshes, waits, command, printed>>

Next ==
  \/ Download
  \/ Dispatch
  \/ Abort
  \/ Done
  \/ \E i \in Rows : PlanPaths(i)
  \/ \E i \in Rows : CheckExisting(i)
  \/ \E i \in Rows, result \in FetchResults : Fetch(i, result)
  \/ \E i \in Rows : RefreshCookies(i)
  \/ \E i \in Rows : Sleep(i)
  \/ \E i \in Rows : AfterLoop(i)
  \/ \E i \in Rows, ok \in BOOLEAN : Copy(i, ok)

Spec == Init /\ [][Next]_vars

\* every worker that can take a step eventually does, and the Parallel call
\* hands out tasks, notices exceptions and returns
FairSpec ==
  /\ Spec
  /\ WF_vars(Download) /\ WF_vars(Dispatch) /\ WF_vars(Abort) /\ WF_vars(Done)
  /\ \A i \in Rows :
       /\ WF_vars(PlanPaths(i))
       /\ WF_vars(CheckExisting(i))
       /\ WF_vars(\E result \in FetchResults : Fetch(i, result))
       /\ WF_vars(RefreshCookies(i))
       /\ WF_vars(Sleep(i))
       /\ WF_vars(AfterLoop(i))
       /\ WF_vars(\E ok \in BOOLEAN : Copy(i, ok))

\* ------------------------------------------------------------ properties
\* a content whose reported duration is > 0
ValidContent(content) ==
  /\ content # "absent"
  /\ Duration(content) # <<>>
  /\ Duration(content)[1] > 0

Outcomes == {"Skipped", "Succeeded", "Failed"}

\* the destination paths planned for row i: the canonical path and, with
\* copy_and_replicate, one target per further label
PlannedOf(i) ==
  {file_path(i)} \cup
  (IF self.copy_and_replicate
     THEN {target_path(i, j) : j \in 2 .. Len(labels_of(i))}
     ELSE {})

\* C1: whenever download_file ends Failed, the canonical path does not exist
\* afterwards (no partial or invalid file of an attempt is left in place).
C1_FailedLeavesNoFile ==
  \A i \in Rows : outcome[i] = "Failed" => fs[file_path(i)] = "absent"

\* C2: if the canonical path exists with duration > 0 when download_file
\* checks it, the call ends Skipped there, with no fetcher invocation and no
\* retry attempt consumed, and the file is left as it was.
C2_SkipStep ==
  \A i \in Rows :
    ( /\ pc[i] = "check"
      /\ ValidContent(fs[file_path(i)])
      /\ pc'[i] \notin {"check", "killed"} )
    => /\ pc'[i] = "done"
       /\ outcome'[i] = "Skipped"
       /\ fetches'[i] = 0
       /\ attempt'[i] = 0
       /\ fs'[file_path(i)] = fs[file_path(i)]

C2_Idempotence ==
  /\ [][C2_SkipStep]_vars
  /\ [](\A i \in Rows :
          outcome[i] = "Skipped" =>
            /\ fetches[i] = 0
            /\ attempt[i] = 0
            /\ waits[i] = 0
            /\ command[i] = {}
            /\ ValidContent(fs[file_path(i)]))

C2_Witness ==
  \E i \in Rows :
    /\ outcome[i] = "Skipped"
    /\ fs[file_path(i)] = "old"
    /\ fetches[i] = 0

\* C3: for max_retries >= 1, a task that is not skipped and none of whose
\* fetch attempts validates makes exactly max_retries fetcher invocations
\* (never more while running) and then ends Failed.
C3_RetryBound ==
  \A i \in Rows :
    self.max_retries >= 1 =>
      /\ fetches[i] <= self.max_retries
      /\ ~validated[i] => fetches[i] = attempt[i]
      /\ outcome[i] = "Failed" =>
           /\ ~validated[i]
           /\ fetches[i] = self.max_retries
      /\ (pc[i] = "done" /\ outcome[i] # "Skipped" /\ ~validated[i]) =>
           /\ outcome[i] = "Failed"
           /\ fetches[i] = self.max_retries

C3_Witness ==
  \E i \in Rows :
    /\ self.max_retries = MaxRetriesBound
    /\ outcome[i] = "Failed"
    /\ fetches[i] = MaxRetriesBound

\* C4 (as stated): after Succeeded or Skipped every planned destination path
\* of the task that exists, canonical or replication target, has duration > 0.
C4_AllPlannedValid ==
  \A i \in Rows :
    outcome[i] \in {"Succeeded", "Skipped"} =>
      \A p \in PlannedOf(i) : fs[p] # "absent" => ValidContent(fs[p])

\* C4 (amended): after Succeeded or Skipped the canonical path, if it exists,
\* has duration > 0, and so has every replication target this run's cp wrote;
\* a duration of 0 or an unreported duration never counts as valid.
C4_CanonicalValid ==
  \A i \in Rows :
    outcome[i] \in {"Succeeded", "Skipped"} =>
      /\ fs[file_path(i)] # "absent" => ValidContent(fs[file_path(i)])
      /\ fs[file_path(i)] \notin {"corrupt", "empty"}
      /\ \A p \in copied[i] : ValidContent(fs[p])

C4_Witness ==
  \E i \in Rows :
    /\ outcome[i] = "Succeeded"
    /\ fs[file_path(i)] = "audio"
    /\ copied[i] # {}
    /\ \E p \in PlannedOf(i) : fs[p] = "corrupt"

\* C5: for the task with labels [A, B, C] whose fetch validates and whose
\* copies do not fail, copy_and_replicate = TRUE leaves the file
\* {identifier}_{start}-{end}.{ext} under the directories of A, B and C, each
\* a copy of the canonical file under A; copy_and_replicate = FALSE never
\* writes a file anywhere but at a canonical path.
C5_Names ==
  [j \in 1 .. 3 |->
     [dir |-> <<"Speech", "Music", "Dog">>[j], name |-> <<"a", 10, 20, "ogg">>]]

C5_Replicated ==
  ( /\ outcome[0] = "Succeeded"
    /\ validated[0]
    /\ cpFailed[0] = {} )
  => IF self.copy_and_replicate
       THEN \A j \in 1 .. 3 :
              /\ C5_Names[j].dir \in dirs
              /\ fs[C5_Names[j]] = "audio"
              /\ fs[C5_Names[j]] = fs[C5_Names[1]]
       ELSE /\ fs[C5_Names[1]] = "audio"
            /\ copied[0] = {}

C5_OnlyCanonicalWritten ==
  ~self.copy_and_replicate =>
    \A p \in AllPaths : p \notin CanonicalPaths => fs'[p] = fs[p]

C5_Replication ==
  /\ [](C5_Replicated)
  /\ [][C5_OnlyCanonicalWritten]_vars

C5_Witness ==
  /\ self.copy_and_replicate
  /\ outcome[0] = "Succeeded"
  /\ validated[0]
  /\ cpFailed[0] = {}
  /\ copied[0] = {C5_Names[2], C5_Names[3]}

\* C6: a task that exhausts its retries (Failed) returns normally: the step
\* that ends it Failed leaves the Parallel call and every other task as they
\* were, download() raises only for a KeyError, and when download() returns
\* every task of the batch has ended in its own outcome.
C6_FailedStep ==
  \A i \in Rows :
    (outcome[i] # "Failed" /\ outcome'[i] = "Failed") =>
      /\ pc'[i] = "done"
      /\ parallel' = parallel
      /\ raisedBy' = raisedBy
      /\ \A j \in Rows \ {i} : pc'[j] = pc[j] /\ outcome'[j] = outcome[j]

C6_NoAbortByFailure ==
  /\ (parallel = "raised" /\ raisedBy = "task") =>
       \E i \in Rows : outcome[i] = "KeyError"
  /\ (\E i \in Rows : outcome[i] = "Failed" /\ parallel = "done") =>
       \A j \in Labels(metadata) : pc[j] = "done" /\ outcome[j] \in Outcomes

C6_FailureIsolation ==
  /\ [][C6_FailedStep]_vars
  /\ [](C6_NoAbortByFailure)

C6_Witness ==
  /\ parallel = "done"
  /\ \E i, j \in Rows :
       /\ i # j
       /\ outcome[i] = "Failed"
       /\ outcome[j] = "Succeeded"
       /\ fetches[j] > attempt[j]

\* C7: a task with a label code absent from the mapping fails only that task:
\* the batch is not aborted by it.
C7_UnknownLabelContained ==
  ~(parallel = "raised" /\ raisedBy = "task")

\* C8: for 0 <= start_idx <= end_idx <= N (a missing bound defaulting to the
\* catalog start or end) download dispatches exactly the tasks at catalog
\* indices start_idx .. end_idx - 1.
C8_Expected ==
  LET s == IF self.start_idx = <<>> THEN 0 ELSE self.start_idx[1]
      e == IF self.end_idx = <<>> THEN NumRows ELSE self.end_idx[1]
  IN  [lo |-> s, hi |-> e]

C8_Dispatched == {i \in Rows : pc[i] # "pending"}

C8_CatalogSlice ==
  (parallel # "init" /\ C8_Expected.lo <= C8_Expected.hi) =>
    /\ Labels(metadata) = C8_Expected.lo .. C8_Expected.hi - 1
    /\ Len(metadata) = C8_Expected.hi - C8_Expected.lo
    /\ raisedBy # "loc"
    /\ C8_Dispatched \subseteq C8_Expected.lo .. C8_Expected.hi - 1
    /\ parallel = "done" => C8_Dispatched = C8_Expected.lo .. C8_Expected.hi - 1

\* C9: the dispatch ends with every task of the batch consumed and ended in
\* exactly one of Skipped, Succeeded or Failed; it never ends by raising.
C9_BatchCompletes ==
  parallel \in {"done", "raised"} =>
    /\ parallel = "done"
    /\ \A i \in Labels(metadata) : pc[i] = "done" /\ outcome[i] \in Outcomes

\* C10: every fetch command carries the credential file only when both a
\* credential file and derive-from-browser are configured (with a warning),
\* the configured one when only one is, none when neither is; the two
\* credential options never appear together.
C10_CredentialSelection ==
  \A i \in Rows :
    /\ \A c \in command[i] :
         /\ c.options # {"--cookies", "--cookies-from-browser"}
         /\ c.output = file_path(i)
         /\ c.options =
              IF self.cookie_file # None THEN {"--cookies"}
              ELSE IF self.cookies_from_browser THEN {"--cookies-from-browser"}
              ELSE {}
    /\ (command[i] # {} /\ self.cookie_file # None /\ self.cookies_from_browser)
         => printed[i] = "WARNING"
    /\ (command[i] # {} /\ ~(self.cookie_file # None /\ self.cookies_from_browser))
         => printed[i] # "WARNING"

C10_Witness ==
  \E i \in Rows :
    /\ self.cookie_file # None
    /\ self.cookies_from_browser
    /\ fetches[i] > 0
    /\ command[i] = {[output |-> file_path(i), options |-> {"--cookies"}]}

\* C11: at every fetcher invocation the canonical path holds no invalid file
\* (an invalid file is deleted before attempt 0 and before each retry).
C11_NoInvalidFileAtFetch ==
  \A i \in Rows :
    ( /\ pc[i] = "loop"
      /\ ~validated[i]
      /\ attempt[i] < self.max_retries )
    => fs[file_path(i)] \notin {"corrupt", "empty"}

\* C12: when an attempt validates, the task has made attempt + 1 fetches, at
\* most max_retries, and ends Succeeded (also when it was the last allowed
\* attempt); no fetch, cookie refresh or wait follows.  The attempt number of
\* a [RETRY] message is between 1 and max_retries.
C12_AtSuccess ==
  \A i \in Rows :
    /\ validated[i] =>
         /\ fetches[i] = attempt[i] + 1
         /\ fetches[i] <= self.max_retries
         /\ waits[i] = attempt[i]
         /\ pc[i] \in {"loop", "copy", "done", "killed"}
         /\ pc[i] = "done" => outcome[i] = "Succeeded"
    /\ pc[i] \in {"refresh", "sleep"} =>
         /\ ~validated[i]
         /\ attempt[i] \in 1 .. self.max_retries

C12_AfterSuccess ==
  \A i \in Rows :
    validated[i] =>
      /\ validated'[i]
      /\ fetches'[i] = fetches[i]
      /\ refreshes'[i] = refreshes[i]
      /\ waits'[i] = waits[i]
      /\ attempt'[i] = attempt[i]

C12_FirstSuccessEndsLoop ==
  /\ [](C12_AtSuccess)
  /\ [][C12_AfterSuccess]_vars

C12_Witness ==
  \E i \in Rows :
    /\ self.max_retries = MaxRetriesBound
    /\ validated[i]
    /\ fetches[i] = MaxRetriesBound
    /\ outcome[i] = "Succeeded"

\* C13: a task that ends Failed after max_retries attempts has waited
\* max_retries - 1 times: no wait follows its final failed attempt.
C13_WaitsBetweenAttempts ==
  \A i \in Rows :
    /\ (outcome[i] = "Failed" /\ self.max_retries >= 1) =>
         waits[i] = self.max_retries - 1
    /\ pc[i] = "sleep" => attempt[i] < self.max_retries

\* C14: after each failed attempt the cookie refresh runs once, before the
\* wait, if and only if the fetch commands use the browser-derived
\* credentials; it never runs when they use a credential file or none.
C14_UsesBrowser ==
  "--cookies-from-browser" \in
    _build_ytdlp_command(self.cookie_file, self.cookies_from_browser).options

C14_RefreshOnRetry ==
  \A i \in Rows :
    IF C14_UsesBrowser
      THEN /\ pc[i] = "refresh" => refreshes[i] = attempt[i] - 1
           /\ pc[i] \notin {"refresh", "killed"} => refreshes[i] = attempt[i]
           /\ pc[i] = "sleep" => refreshes[i] = waits[i] + 1
      ELSE /\ refreshes[i] = 0
           /\ pc[i] # "refresh"

\* C15: when the cp to one replication target fails after a validated fetch,
\* that step changes no file, the task still ends Succeeded with the
\* canonical file in place and valid, and every remaining target is still
\* tried.
C15_Targets(i) == {target_path(i, j) : j \in 2 .. Len(labels_of(i))}

C15_FailedCopyStep ==
  \A i \in Rows :
    (validated[i] /\ cpFailed'[i] # cpFailed[i]) =>
      /\ fs' = fs
      /\ copied'[i] = copied[i]
      /\ pc'[i] \in {"copy", "done"}
      /\ pc'[i] = "copy" => k'[i] = k[i] + 1
      /\ pc'[i] = "done" => /\ outcome'[i] = "Succeeded"
                            /\ k[i] = Len(labels_of(i))

C15_AfterReplication ==
  \A i \in Rows :
    (validated[i] /\ pc[i] \in {"copy", "done"}) =>
      /\ ValidContent(fs[file_path(i)])
      /\ pc[i] = "done" =>
           /\ outcome[i] = "Succeeded"
           /\ self.copy_and_replicate =>
                copied[i] \cup cpFailed[i] = C15_Targets(i)

C16_HasUnknownLabel(i) ==
  \E j \in 1 .. Len(labels_of(i)) : ~Known(labels_of(i)[j])

C16_UnknownLabelBeforeFetch ==
  \A i \in Rows :
    C16_HasUnknownLabel(i) =>
      /\ fetches[i] = 0
      /\ pc[i] \in {"pending", "start", "raised"}
      /\ outcome[i] \in {None, "KeyError"}

\* C17: every interleaving of the workers, for every n_jobs, ends with the
\* same tasks run to the same kind of end as the sequential run: the rows
\* before the first row that raises have returned with an outcome, that row
\* has raised, and no later row was started.
C17_Raises(i) == FirstKeyError(i) # 0

C17_SameAsSequential ==
  (parallel \in {"done", "raised"} /\ raisedBy # "loc") =>
    \A i \in Labels(metadata) :
      IF \E j \in Labels(metadata) : j < i /\ C17_Raises(j)
        THEN pc[i] = "pending"
      ELSE IF C17_Raises(i)
        THEN pc[i] = "raised"
      ELSE pc[i] = "done" /\ outcome[i] \in Outcomes

\* ---------------------------------------------------------------------------
\* download(), lines 97-99: the label filter, run on the segments csv when
\* self.labels is not None
\* ---------------------------------------------------------------------------

\* longest list of wanted display names drawn
MaxWanted == 3

\* the characters of a label code (a Python str)
Chars(code) ==
  CASE code = "/m/A"  -> <<"/", "m", "/", "A">>
    [] code = "/m/B"  -> <<"/", "m", "/", "B">>
    [] code = "/m/C"  -> <<"/", "m", "/", "C">>
    [] code = "/m/AB" -> <<"/", "m", "/", "A", "B">>
    [] code = "/m/X"  -> <<"/", "m", "/", "X">>

\* line 48: display name -> machine id, the inverse of machine_to_display_mapping
display_to_machine_mapping ==
  [d \in Displays |->
     CHOOSE mid \in DOMAIN machine_to_display_mapping :
       machine_to_display_mapping[mid] = d]

\* the label codes of the rows of a segments csv as read at lines 88-95
Segments ==
  << <<"/m/A", "/m/B", "/m/C">>,
     <<"/m/AB", "/m/B">>,
     <<"/m/C">>,
     <<"/m/B", "/m/X">> >>

NumSegments == Len(Segments)

RECURSIVE Join(_)
\* the codes of a row separated by commas, as they stand in the csv
Join(codes) ==
  IF codes = <<>> THEN <<>>
  ELSE IF Len(codes) = 1 THEN Chars(codes[1])
  ELSE Chars(codes[1]) \o <<",">> \o Join(Tail(codes))

\* the positive_labels cell of row r before line 101: the quotes are still on
PositiveLabels(r) == <<"\"">> \o Join(Segments[r + 1]) \o <<"\"">>

\* Python's `sub in x` on str: sub occurs in x as a run of adjacent characters
In(sub, x) ==
  \E off \in 0..(Len(x) - Len(sub)) :
    \A n \in 1..Len(sub) : x[off + n] = sub[n]

\* line 98: the machine ids of the wanted display names
real_labels == [n \in 1..Len(labels[1]) |-> display_to_machine_mapping[labels[1][n]]]

\* line 99, the lambda: any([label in x for label in self.real_labels])
Keeps(r) ==
  \E n \in 1..Len(real_labels) : In(Chars(real_labels[n]), PositiveLabels(r))

\* lists of at most MaxWanted display names
WantedLists ==
  UNION {[1..n -> Displays] : n \in 0..MaxWanted}

\* a Downloader constructed with labels=<list>, before download() runs
FilterInit ==
  /\ InitDownloader
  /\ self = [max_retries |-> 1, n_jobs |-> 1, start_idx |-> <<>>,
             end_idx |-> <<>>, cookie_file |-> None,
             cookies_from_browser |-> FALSE, copy_and_replicate |-> FALSE]
  /\ \A p \in AllPaths : fs[p] = "absent"
  /\ labels \in {<<l>> : l \in WantedLists}
  /\ scanned = 0
  /\ kept = {}

\* line 99: .apply tests the next row of the csv and the mask keeps it or not
FilterRow ==
  /\ labels # <<>>
  /\ scanned < NumSegments
  /\ kept' = IF Keeps(scanned) THEN kept \cup {scanned} ELSE kept
  /\ scanned' = scanned + 1
  /\ UNCHANGED <<labels, self, fs, dirs, metadata, parallel, raisedBy, nextI,
                 taskVars>>

FilterNext == FilterRow

FilterSpec == FilterInit /\ [][FilterNext]_vars

\* the set of label codes of row r of the csv
C18_Codes(r) == {Segments[r + 1][n] : n \in 1..Len(Segments[r + 1])}

\* the set of wanted label codes
C18_Wanted == {real_labels[n] : n \in 1..Len(real_labels)}

\* C18: with a wanted-label list configured, a row the filter has tested is
\* kept if and only if one of its label codes equals a wanted code; a row
\* whose code only contains a wanted code as a prefix or substring is not kept
C18_KeptIffIntersects ==
  labels # <<>> =>
    \A r \in 0..(scanned - 1) :
      r \in kept <=> C18_Codes(r) \cap C18_Wanted # {}


\* the paths that carry the file name of row i, in any label directory
C19_PathsOf(i) == {p \in AllPaths : p.name = file_path(i).name}

C19_PlanStep ==
  \A i \in Rows :
    (pc[i] = "start" /\ pc'[i] = "check") =>
      /\ fs' = fs
      /\ dirs \subseteq dirs'
      /\ dirs' \ dirs \subseteq MadeDirs(i)

C19_SkipStep ==
  \A i \in Rows :
    (outcome[i] # "Skipped" /\ outcome'[i] = "Skipped") =>
      /\ pc[i] = "check"
      /\ fs' = fs
      /\ dirs' = dirs
      /\ MadeDirs(i) \subseteq dirs

C19_AfterSkip ==
  \A i \in Rows :
    outcome[i] = "Skipped" =>
      /\ outcome'[i] = "Skipped"
      /\ \A p \in C19_PathsOf(i) : fs'[p] = fs[p]

\* C19: a download_file call that ends Skipped has changed nothing but the
\* set of directories, by creating the task's label directories: the steps
\* before the skip and the skip itself leave every file as it was, nothing is
\* fetched or copied, and the task's replication targets, missing or invalid,
\* stay as they are, also with copy_and_replicate set.
C19_SkippedFrame ==
  /\ [][C19_PlanStep /\ C19_SkipStep /\ C19_AfterSkip]_vars
  /\ [](\A i \in Rows :
          outcome[i] = "Skipped" =>
            /\ fetches[i] = 0
            /\ copied[i] = {}
            /\ cpFailed[i] = {}
            /\ k[i] = 0)

C19_Witness ==
  \E i \in Rows :
    /\ outcome[i] = "Skipped"
    /\ self.copy_and_replicate
    /\ Len(labels_of(i)) = 3
    /\ fs[target_path(i, 2)] = "corrupt"
    /\ fs[target_path(i, 3)] = "absent"

\* C20: for every max_retries, zero and negative included, download_file
\* reaches the replication step only after at least one fetch attempt of the
\* same call left a canonical file that validated, and a call that made no
\* validated attempt and did not skip ends Failed.
C20_ReplicationNeedsValidFetch ==
  \A i \in Rows :
    /\ (pc[i] = "copy" \/ outcome[i] = "Succeeded") =>
         (fetches[i] >= 1 /\ validated[i])
    /\ (pc[i] = "done" /\ outcome[i] # "Skipped" /\ ~validated[i]) =>
         (outcome[i] = "Failed" /\ copied[i] = {})

====
